---- MODULE Spec2Model ----
(***************************************************************************)
(* file-upload-service: the record store (storage.py), the uploader        *)
(* (uploader.py) and the processor (processor.py) as one state machine.    *)
(*                                                                         *)
(* Strings that the code inspects (file names, ids, path strings, ISO      *)
(* timestamps) are sequences of one-character strings; file contents are   *)
(* sequences of byte values; decoded text is a sequence of code points.    *)
(* Python values that may be None and JSON values are tagged records.      *)
(***************************************************************************)
EXTENDS Integers, Sequences, FiniteSets, TLC

\* ------------------------------------------------------------------ bounds

\* number of uuid4 tokens one behaviour may draw (calls of upload_file that
\* reach the copy)
MaxUploads == 2

\* ------------------------------------------------------- sequence helpers

Max(S) == CHOOSE m \in S : \A n \in S : n <= m

EndsWith(s, suf) ==
    /\ Len(suf) <= Len(s)
    /\ SubSeq(s, Len(s) - Len(suf) + 1, Len(s)) = suf

\* ------------------------------------------------------------ config.py

ALLOWED_EXTENSIONS == {<<".", "t", "x", "t">>, <<".", "c", "s", "v">>}

\* config.UPLOADS_DIR, as the directory part of a path string
UPLOADS_DIR == "uploads/"

\* ------------------------------------------------------ str / pathlib

UpperToLower ==
    [c \in {"A", "B", "C", "D", "F", "P", "S", "T", "V", "X"} |->
        CASE c = "A" -> "a" [] c = "B" -> "b" [] c = "C" -> "c"
          [] c = "D" -> "d" [] c = "F" -> "f" [] c = "P" -> "p"
          [] c = "S" -> "s" [] c = "T" -> "t" [] c = "V" -> "v"
          [] c = "X" -> "x"]

\* str.lower()
lower(s) ==
    [i \in 1..Len(s) |->
        IF s[i] \in DOMAIN UpperToLower THEN UpperToLower[s[i]] ELSE s[i]]

\* PurePath.suffix of a file name: from the last dot, unless that dot is the
\* first or the last character of the name
suffix(name) ==
    LET dots == {i \in 1..Len(name) : name[i] = "."}
        i    == IF dots = {} THEN 0 ELSE Max(dots)
    IN  IF 1 < i /\ i < Len(name) THEN SubSeq(name, i, Len(name)) ELSE <<>>

\* config.UPLOADS_DIR / target_name
Path(dir, name) == [dir |-> dir, name |-> name]

\* str(path)
path_str(p) == <<p.dir>> \o p.name

\* Path(string)
path_parse(s) == [dir |-> Head(s), name |-> Tail(s)]

\* --------------------------------------------------------- the file system
\* The candidate source paths of upload_file, by file name.  Each is a
\* regular file with a content, a directory, or missing.

SrcA      == <<"a", ".", "t", "x", "t">>       \* regular file, lower-case
SrcMixed  == <<"B", ".", "C", "s", "V">>       \* regular file, mixed case
SrcPdf    == <<"r", ".", "t", "x", "t", ".", "p", "d", "f">>  \* file, disallowed
SrcGonePdf == <<"n", ".", "P", "D", "F">>      \* missing, disallowed suffix
SrcDir    == <<"d", ".", "c", "s", "v">>       \* a directory
\* missing, and os.stat raises for it instead of reporting it absent: a
\* name longer than NAME_MAX, or a path below a directory that may not be
\* searched
SrcLong   == <<"l", "o", "n", "g", ".", "t", "x", "t">>

SrcPaths == {SrcA, SrcMixed, SrcPdf, SrcGonePdf, SrcDir, SrcLong}

\* "a b\nc" and the empty file
BytesA     == <<97, 32, 98, 10, 99>>
BytesEmpty == <<>>
\* "a\r\nb \xe9\n": two lines, not valid UTF-8 (a lone 0xE9)
BytesLatin == <<97, 13, 10, 98, 32, 233, 10>>

SrcKind(p) ==
    CASE p \in {SrcA, SrcMixed, SrcPdf} -> "file"
      [] p = SrcDir -> "dir"
      [] OTHER -> "missing"

SrcBytes(p) ==
    CASE p = SrcA -> BytesA
      [] p = SrcMixed -> BytesEmpty
      [] OTHER -> BytesLatin

\* the source path has an extension that, lowercased, is in the allowed set
AllowedExt(p) == lower(suffix(p)) \in ALLOWED_EXTENSIONS

\* Path.exists() raises: it re-raises every OSError of os.stat but ENOENT,
\* ENOTDIR, EBADF and ELOOP
path_exists_raises(p) == p = SrcLong

\* Path.exists() and Path.is_file()
path_exists(p) == SrcKind(p) # "missing"
path_is_file(p) == SrcKind(p) = "file"

\* ------------------------------------------------------ codecs (processor)

Continuation == 128..191

\* bytes.decode("utf-8"), strict: [ok, text]; text is the code points
RECURSIVE utf8_decode(_)
utf8_decode(b) ==
    IF b = <<>> THEN [ok |-> TRUE, text |-> <<>>]
    ELSE IF b[1] < 128 THEN
        LET r == utf8_decode(Tail(b))
        IN  [ok |-> r.ok, text |-> <<b[1]>> \o r.text]
    ELSE IF b[1] \in 194..223 /\ Len(b) >= 2 /\ b[2] \in Continuation THEN
        LET r == utf8_decode(SubSeq(b, 3, Len(b)))
        IN  [ok |-> r.ok,
             text |-> <<(b[1] - 192) * 64 + (b[2] - 128)>> \o r.text]
    ELSE IF /\ b[1] \in 224..239 /\ Len(b) >= 3
            /\ b[2] \in Continuation /\ b[3] \in Continuation
            /\ (b[1] = 224 => b[2] >= 160) /\ (b[1] = 237 => b[2] <= 159) THEN
        LET r == utf8_decode(SubSeq(b, 4, Len(b)))
        IN  [ok |-> r.ok,
             text |-> <<(b[1] - 224) * 4096 + (b[2] - 128) * 64 + (b[3] - 128)>>
                      \o r.text]
    ELSE [ok |-> FALSE, text |-> <<>>]

\* the byte-order mark EF BB BF
BOM == <<239, 187, 191>>

\* bytes.decode("utf-8-sig"): a leading byte-order mark is dropped
utf8_sig_decode(b) ==
    IF Len(b) >= 3 /\ SubSeq(b, 1, 3) = BOM
    THEN utf8_decode(SubSeq(b, 4, Len(b)))
    ELSE utf8_decode(b)

\* (a variant that accepts 7-bit bytes only, as bytes.decode("ascii"))
latin1_decode_ascii(b) ==
    [ok |-> \A i \in 1..Len(b) : b[i] < 128, text |-> b]

\* bytes.decode("latin-1"): every byte is its own code point
latin1_decode(b) == [ok |-> TRUE, text |-> b]

\* bytes.decode("utf-8", errors="ignore"): undecodable bytes are dropped
RECURSIVE utf8_ignore_decode(_)
utf8_ignore_decode(b) ==
    IF b = <<>> THEN [ok |-> TRUE, text |-> <<>>]
    ELSE LET n == CHOOSE k \in 0..Len(b) :
                    /\ utf8_decode(SubSeq(b, 1, k)).ok
                    /\ \A m \in (k + 1)..Len(b) : ~utf8_decode(SubSeq(b, 1, m)).ok
             head == utf8_decode(SubSeq(b, 1, n)).text
         IN  IF n = Len(b) THEN [ok |-> TRUE, text |-> head]
             ELSE [ok |-> TRUE,
                   text |-> head \o
                            utf8_ignore_decode(SubSeq(b, n + 2, Len(b))).text]

\* the text layer of open(mode="r"): universal newlines, \r\n and \r read
\* as \n
RECURSIVE universal_newlines(_)
universal_newlines(t) ==
    IF t = <<>> THEN <<>>
    ELSE IF t[1] = 13 /\ Len(t) >= 2 /\ t[2] = 10
         THEN <<10>> \o universal_newlines(SubSeq(t, 3, Len(t)))
    ELSE IF t[1] = 13 THEN <<10>> \o universal_newlines(Tail(t))
    ELSE <<t[1]>> \o universal_newlines(Tail(t))

\* _read_text_robust on the bytes of a file that can be opened: the first
\* codec of the chain that accepts them
_read_text_robust(b) ==
    IF utf8_decode(b).ok THEN
        [outcome |-> "ok", codec |-> "utf-8",
         text |-> universal_newlines(utf8_decode(b).text)]
    ELSE IF utf8_sig_decode(b).ok THEN
        [outcome |-> "ok", codec |-> "utf-8-sig",
         text |-> universal_newlines(utf8_sig_decode(b).text)]
    ELSE IF latin1_decode(b).ok THEN
        [outcome |-> "ok", codec |-> "latin-1",
         text |-> universal_newlines(latin1_decode(b).text)]
    ELSE [outcome |-> "ok", codec |-> "utf-8-ignore",
          text |-> universal_newlines(utf8_ignore_decode(b).text)]

\* the line boundaries of str.splitlines()
LineBreaks == {10, 11, 12, 13, 28, 29, 30, 133, 8232, 8233}

\* the characters str.split() treats as whitespace
Whitespace ==
    (9..13) \cup (28..32) \cup {133, 160, 5760} \cup (8192..8202)
        \cup {8232, 8233, 8239, 8287, 12288}

\* (a variant that splits as str.split("\n") would: a boundary at the end
\* opens one more, empty line, and the empty text is one empty line)
RECURSIVE splitlines_split(_)
splitlines_split(t) ==
    LET brk == {i \in 1..Len(t) : t[i] \in LineBreaks}
    IN  IF brk = {} THEN <<t>>
        ELSE LET i == CHOOSE k \in brk : \A m \in brk : k <= m
                 j == IF t[i] = 13 /\ i < Len(t) /\ t[i + 1] = 10
                      THEN i + 1 ELSE i
             IN  <<SubSeq(t, 1, i - 1)>>
                     \o splitlines_split(SubSeq(t, j + 1, Len(t)))

\* str.splitlines()
RECURSIVE splitlines(_)
splitlines(t) ==
    IF t = <<>> THEN <<>>
    ELSE LET brk == {i \in 1..Len(t) : t[i] \in LineBreaks}
         IN  IF brk = {} THEN <<t>>
             ELSE LET i == CHOOSE k \in brk : \A m \in brk : k <= m
                      j == IF t[i] = 13 /\ i < Len(t) /\ t[i + 1] = 10
                           THEN i + 1 ELSE i
                  IN  <<SubSeq(t, 1, i - 1)>>
                          \o splitlines(SubSeq(t, j + 1, Len(t)))

\* (a variant that counts as len(ln.split(" ")) would: one token more than
\* there are spaces)
split_len_single_space(ln) ==
    1 + Cardinality({i \in 1..Len(ln) : ln[i] = 32})

\* len(ln.split()): the maximal runs of non-whitespace characters
split_len(ln) ==
    Cardinality({i \in 1..Len(ln) :
        /\ ln[i] \notin Whitespace
        /\ (i = 1 \/ ln[i - 1] \in Whitespace)})

RECURSIVE sum_split_len(_)
sum_split_len(lines) ==
    IF lines = <<>> THEN 0
    ELSE split_len(Head(lines)) + sum_split_len(Tail(lines))

\* _count_lines_words
_count_lines_words(text) ==
    LET lines == splitlines(text)
    IN  [line_count |-> Len(lines), word_count |-> sum_split_len(lines)]

\* -------------------------------------------------------------- models.py

\* Optional[int]
None == [t |-> "None"]
PyInt(n) == [t |-> "int", v |-> n]

\* datetime.now(timezone.utc) at the n-th record creation: seconds and
\* microseconds; the clock advances, and its microseconds may be 0
datetime_now(n) ==
    IF n = 1 THEN [sec |-> "07", usec |-> "000000"]
    ELSE [sec |-> "08", usec |-> "000005"]

\* FileRecord(id, original_name, stored_path, size_bytes) with the dataclass
\* defaults; now is the value of datetime.now(timezone.utc)
FileRecord(id, original_name, stored_path, size_bytes, now) ==
    [id |-> id, original_name |-> original_name, stored_path |-> stored_path,
     size_bytes |-> size_bytes, uploaded_at |-> now,
     status |-> "UPLOADED", line_count |-> None, word_count |-> None]

\* ---------------------------------------------------- datetime and json

\* datetime.isoformat(): the microseconds are left out when they are 0
isoformat(dt) ==
    IF dt.usec = "000000" THEN <<dt.sec, "+00:00">>
    ELSE <<dt.sec, ".", dt.usec, "+00:00">>

\* (a variant that reads the seconds only)
fromisoformat_seconds(s) == [sec |-> s[1], usec |-> "000000"]

\* datetime.fromisoformat()
fromisoformat(s) ==
    IF s[2] = "." THEN [sec |-> s[1], usec |-> s[3]]
    ELSE [sec |-> s[1], usec |-> "000000"]

\* JSON values
JNull == [t |-> "null"]
JNum(n) == [t |-> "num", v |-> n]
JStr(s) == [t |-> "str", v |-> s]

OptionalKeys == {"line_count", "word_count"}
NumberKeys == {"size_bytes"}

\* json.dumps of one dict of _to_dict: None is null, an int a number, a str
\* a string
json_dumps_obj(d) ==
    [k \in DOMAIN d |->
        IF k \in OptionalKeys
        THEN (IF d[k] = None THEN JNull ELSE JNum(d[k].v))
        ELSE IF k \in NumberKeys THEN JNum(d[k])
        ELSE JStr(d[k])]

\* json.dumps(data, indent=2) of the list of dicts
json_dumps(data) == [i \in 1..Len(data) |-> json_dumps_obj(data[i])]

\* json.loads of one object
json_loads_obj(o) ==
    [k \in DOMAIN o |->
        IF k \in OptionalKeys
        THEN (IF o[k] = JNull THEN None ELSE PyInt(o[k].v))
        ELSE o[k].v]

\* json.loads of the array
json_loads(items) == [i \in 1..Len(items) |-> json_loads_obj(items[i])]

\* ------------------------------------------------------------- storage.py

\* InMemoryDB._to_dict
_to_dict(fr) ==
    [id |-> fr.id,
     original_name |-> fr.original_name,
     stored_path |-> path_str(fr.stored_path),
     size_bytes |-> fr.size_bytes,
     uploaded_at |-> isoformat(fr.uploaded_at),
     status |-> fr.status,
     line_count |-> fr.line_count,
     word_count |-> fr.word_count]

\* the keys _from_dict reads with d[...]: a KeyError when one is missing
RequiredKeys ==
    {"id", "original_name", "stored_path", "size_bytes", "uploaded_at"}

\* d.get(key, default)
dict_get_default(d, k, default) == IF k \in DOMAIN d THEN d[k] ELSE default

\* InMemoryDB._from_dict, for a dict that has the required keys
_from_dict(d) ==
    [id |-> d.id,
     original_name |-> d.original_name,
     stored_path |-> path_parse(d.stored_path),
     size_bytes |-> d.size_bytes,
     uploaded_at |-> fromisoformat(d.uploaded_at),
     status |-> dict_get_default(d, "status", "UPLOADED"),
     line_count |-> dict_get_default(d, "line_count", None),
     word_count |-> dict_get_default(d, "word_count", None)]

\* self._rows is a dict in insertion order: a sequence of records with
\* pairwise distinct ids.
RowIds(rws) == {rws[i].id : i \in 1..Len(rws)}

\* self._rows.get(record_id): the record, or None
rows_get(rws, id) ==
    IF id \in RowIds(rws)
    THEN rws[CHOOSE i \in 1..Len(rws) : rws[i].id = id]
    ELSE None

\* self._rows[record.id] = record: replaces in place, or appends
rows_set(rws, rec) ==
    IF rec.id \in RowIds(rws)
    THEN [i \in 1..Len(rws) |-> IF rws[i].id = rec.id THEN rec ELSE rws[i]]
    ELSE Append(rws, rec)

\* The snapshot file data/db.json: absent; a JSON array; a file that
\* read_text or json.loads rejects (a truncated or foreign file, a file
\* whose mode forbids reading it); a file in a directory that may not be
\* searched, so that it can be neither opened nor examined with os.stat.
SnapAbsent == [kind |-> "absent"]
SnapGarbage == [kind |-> "garbage"]
SnapInaccessible == [kind |-> "inaccessible"]
SnapJson(items) == [kind |-> "json", items |-> items]

\* what _flush writes: json.dumps of the _to_dict of every row
Serialized(rws) == SnapJson(json_dumps([i \in 1..Len(rws) |-> _to_dict(rws[i])]))

\* The outcomes of _DB_PATH.write_text: written; an OSError before the file
\* is opened (mkdir or open fails), the file as it was; an OSError after the
\* open truncated the file (disk full), the file left without a JSON text.
WriteOutcomes == {"ok", "error_open", "error_torn"}

\* (a variant of _flush that defers the write: the file stays as it was)
_flush_file_deferred(rws, snap, w) ==
    IF w = "error_torn" THEN SnapGarbage ELSE snap

\* what write_text does for the drawn outcome w: a file in a directory
\* that may not be searched cannot be opened
write_text(snap, w) == IF snap.kind = "inaccessible" THEN "error_open" ELSE w

\* {d["id"]: self._from_dict(d) for d in items}
RECURSIVE rows_of_dicts(_)
rows_of_dicts(ds) ==
    IF ds = <<>> THEN <<>>
    ELSE rows_set(rows_of_dicts(SubSeq(ds, 1, Len(ds) - 1)),
                  _from_dict(ds[Len(ds)]))

\* (a variant of _load that skips an entry it cannot deserialize and loads
\* the others)
_load_partial(snap) ==
    IF snap.kind = "inaccessible" THEN [rows |-> <<>>, raised |-> TRUE]
    ELSE IF snap.kind # "json" THEN [rows |-> <<>>, raised |-> FALSE]
    ELSE LET well_formed(d) == RequiredKeys \subseteq DOMAIN d
         IN  [rows |-> rows_of_dicts(SelectSeq(json_loads(snap.items),
                                               well_formed)),
              raised |-> FALSE]

\* InMemoryDB._load: the rows a new Store holds for a snapshot file
\* and raised, whether an exception leaves _load: _DB_PATH.exists() stands
\* before the try block, the read and the parse stand inside it
_load(snap) ==
    IF snap.kind = "inaccessible" THEN [rows |-> <<>>, raised |-> TRUE]
    ELSE IF snap.kind = "absent" THEN [rows |-> <<>>, raised |-> FALSE]
    ELSE IF snap.kind # "json" THEN [rows |-> <<>>, raised |-> FALSE]
    ELSE LET ds == json_loads(snap.items)
         IN  IF \A i \in 1..Len(ds) : RequiredKeys \subseteq DOMAIN ds[i]
             THEN [rows |-> rows_of_dicts(ds), raised |-> FALSE]
             ELSE [rows |-> <<>>, raised |-> FALSE]

\* (a variant of _flush that reads the file and writes its rows merged with
\* the rows of the mapping)
RECURSIVE rows_update(_, _)
rows_update(base, rws) ==
    IF rws = <<>> THEN base
    ELSE rows_set(rows_update(base, SubSeq(rws, 1, Len(rws) - 1)),
                  rws[Len(rws)])

_flush_file_merged(rws, snap, w) ==
    CASE w = "ok" -> Serialized(rows_update(_load(snap).rows, rws))
      [] w = "error_open" -> snap
      [] OTHER -> SnapGarbage

\* the snapshot file after InMemoryDB._flush with write outcome w
_flush_file(rws, snap, w) ==
    CASE w = "ok" -> Serialized(rws)
      [] w = "error_open" -> snap
      [] OTHER -> SnapGarbage

\* (a variant of _flush that clears the flag before it writes)
_flush_dirty_cleared_first(d, w) == FALSE

\* self._dirty after _flush: cleared only when write_text returned
_flush_dirty(d, w) == IF w = "ok" THEN FALSE ELSE d

\* ------------------------------------------------------------------ state

VARIABLES
    up,         \* the process runs: storage.db has been constructed
    rows,       \* db._rows; while no process runs, what the last one held
    dirty,      \* db._dirty
    snapshot,   \* the file data/db.json
    uploads,    \* the files of config.UPLOADS_DIR: file name -> bytes
    tokens,     \* how many uuid4 tokens have been drawn
    last,       \* the most recent event: the call, its outcome, what it returned
    other,      \* the Store of a second process over the same snapshot file
    held,       \* the list a caller of db.all() holds: references and a copy
    req         \* the POST /upload request the HTTP handler works on

vars == <<up, rows, dirty, snapshot, uploads, tokens, last, other, held,
          req>>

\* what only the specifications of two processes, of db.all() and of the
\* HTTP handler change
aux == <<other, held, req>>

\* no request is being handled; tmp tells whether a file lies in
\* uploads/_incoming
NoRequest == [busy |-> FALSE, tmp |-> FALSE]

\* the caller holds no list
NoResult == [refs |-> <<>>, seen |-> <<>>]

\* What a caller (or the environment) did last.  ret is the list of records
\* returned; fault is the I/O fault met during the call ("none" without);
\* read tells whether a stored file was opened; again tells that this is a
\* process call and the event before was a process call with the same
\* argument that returned normally.
Result(op, arg, outcome, ret, fault, read) ==
    [op |-> op, arg |-> arg, outcome |-> outcome, ret |-> ret,
     fault |-> fault, read |-> read,
     again |-> (op = "process" /\ last.op = op /\ last.arg = arg
                   /\ last.outcome = "ok")]

Init ==
    /\ up = TRUE
    /\ rows = <<>>
    /\ dirty = FALSE
    /\ snapshot = SnapAbsent
    /\ uploads = <<>>
    /\ tokens = 0
    /\ last = [op |-> "init", arg |-> <<>>, outcome |-> "ok", ret |-> <<>>,
               fault |-> "none", read |-> FALSE, again |-> FALSE]
    /\ other = [up |-> FALSE, rows |-> <<>>, dirty |-> FALSE]
    /\ held = NoResult
    /\ req = NoRequest

\* --------------------------------------------------------------- uploader

\* (a variant that looks at the first extension of the name, not the last)
is_allowed_file_first_ext(p) ==
    \E e \in ALLOWED_EXTENSIONS :
        \E i \in 1..Len(p) :
            /\ \A j \in 1..(i - 1) : p[j] # "."
            /\ i + Len(e) - 1 <= Len(p)
            /\ lower(SubSeq(p, i, i + Len(e) - 1)) = e

\* is_allowed_file
is_allowed_file(p) == lower(suffix(p)) \in ALLOWED_EXTENSIONS

\* the two checks that open upload_file: what they raise, or "ok"
precheck(p) ==
    IF path_exists_raises(p) THEN "OSError"
    ELSE IF ~path_exists(p) \/ ~path_is_file(p) THEN "FileAccessError"
    ELSE IF ~is_allowed_file(p) THEN "InvalidFileTypeError"
    ELSE "ok"

\* (a variant without the clauses that re-raise the classified exceptions)
upload_except_all_generic(exc) == "UploadError"

\* the except clauses of upload_file: what the caller gets for an exception
\* raised in the try block
upload_except(exc) ==
    IF exc \in {"InvalidFileTypeError", "FileAccessError"} THEN exc
    ELSE "UploadError"

\* uuid.uuid4().hex for the n-th token drawn: distinct draws never collide
uuid4_hex(n) ==
    <<CASE n = 1 -> "u1" [] n = 2 -> "u2" [] n = 3 -> "u3" [] n = 4 -> "u4"
        [] n = 5 -> "u5" [] OTHER -> "u6">>

\* (a variant that names the copy after the source, without a token)
target_name_of_source(hex, p) == lower(p)

\* (a variant that keeps the case of the extension)
target_name_keep_case(hex, p) == hex \o suffix(p)

\* target_name = f"{uuid.uuid4().hex}{src_path.suffix.lower()}"
target_name(hex, p) == hex \o lower(suffix(p))

\* The outcomes of the copy steps: done; shutil.copy2 raises before the
\* target exists; shutil.copy2 (in copystat) or dest_path.stat() raises after
\* the bytes were copied.
CopyOutcomes == {"ok", "error_copy", "error_stat"}

\* the managed directory with file name holding bytes b
put_file(fs, name, b) ==
    [n \in DOMAIN fs \cup {name} |-> IF n = name THEN b ELSE fs[n]]

\* upload_file(src_path), with the outcome cp of the copy steps and the
\* outcome w of the snapshot write
upload_file(p, cp, w) ==
    /\ up
    /\ UNCHANGED aux
    /\ IF precheck(p) # "ok" THEN
           /\ last' = Result("upload", p, upload_except(precheck(p)), <<>>,
                             "none", FALSE)
           /\ UNCHANGED <<up, rows, dirty, snapshot, uploads, tokens>>
       ELSE
           /\ tokens < MaxUploads
           /\ tokens' = tokens + 1
           /\ LET name == target_name(uuid4_hex(tokens + 1), p)
                  dest_path == Path(UPLOADS_DIR, name)
                  copied == put_file(uploads, name, SrcBytes(p))
                  record == FileRecord(name, p, dest_path, Len(copied[name]),
                                      datetime_now(tokens + 1))
              IN  IF cp = "error_copy" THEN
                      /\ last' = Result("upload", p, upload_except("OSError"), <<>>,
                                        cp, FALSE)
                      /\ UNCHANGED <<up, rows, dirty, snapshot, uploads>>
                  ELSE IF cp = "error_stat" THEN
                      /\ uploads' = copied
                      /\ last' = Result("upload", p, upload_except("OSError"), <<>>,
                                        cp, FALSE)
                      /\ UNCHANGED <<up, rows, dirty, snapshot>>
                  ELSE
                      LET wr == write_text(snapshot, w)
                      IN  /\ uploads' = copied
                          /\ rows' = rows_set(rows, record)
                          /\ dirty' = _flush_dirty(TRUE, wr)
                          /\ snapshot' = _flush_file(rows', snapshot, wr)
                          /\ last' = IF wr = "ok"
                                     THEN Result("upload", p, "ok", <<record>>,
                                                 "none", FALSE)
                                     ELSE Result("upload", p,
                                                 upload_except("OSError"),
                                                 <<>>, wr, FALSE)
                          /\ UNCHANGED up

\* -------------------------------------------------------------- processor

\* (a variant that adds the new counts to the counts the record has)
processed_accumulate(rec, counts) ==
    [rec EXCEPT
        !.line_count = IF rec.line_count = None THEN PyInt(counts.line_count)
                       ELSE PyInt(rec.line_count.v + counts.line_count),
        !.word_count = IF rec.word_count = None THEN PyInt(counts.word_count)
                       ELSE PyInt(rec.word_count.v + counts.word_count),
        !.status = "PROCESSED"]

\* (a variant that assigns the status only when the file has lines)
processed_status_if_lines(rec, counts) ==
    [rec EXCEPT !.line_count = PyInt(counts.line_count),
                !.word_count = PyInt(counts.word_count),
                !.status = IF counts.line_count > 0 THEN "PROCESSED"
                           ELSE rec.status]

\* (a variant that also assigns size_bytes, from the text it read)
processed_remeasured(rec, counts) ==
    [rec EXCEPT !.line_count = PyInt(counts.line_count),
                !.word_count = PyInt(counts.word_count),
                !.status = "PROCESSED",
                !.size_bytes = counts.line_count]

\* the record with the counts and the status process_file assigns
processed(rec, counts) ==
    [rec EXCEPT !.line_count = PyInt(counts.line_count),
                !.word_count = PyInt(counts.word_count),
                !.status = "PROCESSED"]

\* (a variant without the clause that re-raises the classified exceptions)
process_except_all_generic(exc) == "ProcessingError"

\* the except clauses of process_file: what the caller gets for an exception
\* raised in the try block
process_except(exc) ==
    IF exc \in {"RecordNotFoundError", "DecodeError"} THEN exc
    ELSE "ProcessingError"

\* process_file(record_id), with the outcome w of the snapshot write
process_file(record_id, w) ==
    /\ up
    /\ UNCHANGED aux
    /\ LET rec == rows_get(rows, record_id)
       IN  IF rec = None THEN
               /\ last' = Result("process", record_id,
                                 process_except("RecordNotFoundError"),
                                 <<>>, "none", FALSE)
               /\ UNCHANGED <<up, rows, dirty, snapshot, uploads, tokens>>
           ELSE IF rec.stored_path.name \notin DOMAIN uploads THEN
               \* read_text raises FileNotFoundError
               /\ last' = Result("process", record_id, process_except("OSError"),
                                 <<>>, "error_read", FALSE)
               /\ UNCHANGED <<up, rows, dirty, snapshot, uploads, tokens>>
           ELSE
               LET r == _read_text_robust(uploads[rec.stored_path.name])
                   rec2 == processed(rec, _count_lines_words(r.text))
                   wr == write_text(snapshot, w)
               IN  /\ rows' = rows_set(rows, rec2)
                   /\ dirty' = _flush_dirty(TRUE, wr)
                   /\ snapshot' = _flush_file(rows', snapshot, wr)
                   /\ last' = IF wr = "ok"
                              THEN Result("process", record_id, "ok", <<rec2>>,
                                          "none", TRUE)
                              ELSE Result("process", record_id,
                                          process_except("OSError"), <<>>, wr, TRUE)
                   /\ UNCHANGED <<up, uploads, tokens>>

\* -------------------------------------------------------------- the ids

\* an id no upload ever assigns
UnknownId == <<"z", ".", "t", "x", "t">>

\* the ids a caller may ask process for
ProbeIds == RowIds(rows) \cup DOMAIN uploads \cup {UnknownId}

\* ------------------------------------------------------ process lifecycle

\* Interpreter shutdown: the atexit hook _flush_if_dirty runs, with write
\* outcome w; what it raises is printed and the process ends all the same.
_flush_if_dirty(w) ==
    /\ up
    /\ up' = FALSE
    /\ snapshot' = IF dirty
                   THEN _flush_file(rows, snapshot, write_text(snapshot, w))
                   ELSE snapshot
    /\ dirty' = FALSE
    /\ last' = Result("exit", <<>>, "ok", <<>>,
                      IF dirty THEN write_text(snapshot, w) ELSE "none", FALSE)
    /\ held' = NoResult
    /\ UNCHANGED <<rows, uploads, tokens, other, req>>

\* The process is killed: no atexit hook runs.
kill ==
    /\ up
    /\ up' = FALSE
    /\ dirty' = FALSE
    /\ last' = Result("kill", <<>>, "ok", <<>>, "none", FALSE)
    /\ held' = NoResult
    /\ UNCHANGED <<rows, snapshot, uploads, tokens, other, req>>

\* InMemoryDB.__init__ at the import of storage.py in a new process
InMemoryDB_init ==
    /\ ~up
    /\ LET ld == _load(snapshot)
       IN  IF ld.raised THEN
               /\ last' = Result("init", <<>>, "error", <<>>, "error_load", FALSE)
               /\ UNCHANGED <<up, rows, dirty>>
           ELSE
               /\ up' = TRUE
               /\ rows' = ld.rows
               /\ dirty' = FALSE
               /\ last' = Result("init", <<>>, "ok", <<>>, "none", FALSE)
    /\ UNCHANGED <<snapshot, uploads, tokens>>
    /\ UNCHANGED aux

\* ------------------------------------------------------------ environment

\* the snapshot with the key "id" missing from its first entry
drop_id(snap) ==
    SnapJson([i \in 1..Len(snap.items) |->
        IF i = 1
        THEN [k \in DOMAIN snap.items[1] \ {"id"} |-> snap.items[1][k]]
        ELSE snap.items[i]])

\* Something outside the Store damages the snapshot file.
external_damage(how) ==
    /\ snapshot' =
         CASE how = "garbage" -> SnapGarbage
           [] how = "inaccessible" -> SnapInaccessible
           [] OTHER -> IF snapshot.kind = "json" /\ Len(snapshot.items) > 0
                       THEN drop_id(snapshot) ELSE SnapGarbage
    /\ snapshot' # snapshot
    /\ last' = Result("external", <<how>>, "ok", <<>>, "none", FALSE)
    /\ UNCHANGED <<up, rows, dirty, uploads, tokens>>
    /\ UNCHANGED aux

\* Something outside the Store deletes a stored file.
external_unlink(name) ==
    /\ name \in DOMAIN uploads
    /\ uploads' = [n \in DOMAIN uploads \ {name} |-> uploads[n]]
    /\ last' = Result("external", name, "ok", <<>>, "none", FALSE)
    /\ UNCHANGED <<up, rows, dirty, snapshot, tokens>>
    /\ UNCHANGED aux

\* ---------------------------------------------------------- specification

\* A fault is drawn only for a step the call reaches: the copy outcome when
\* the checks pass, the write outcome when save is called.
Next ==
    \/ \E p \in SrcPaths, cp \in CopyOutcomes, w \in WriteOutcomes :
           /\ (SrcKind(p) # "file" \/ ~AllowedExt(p)) => cp = "ok"
           /\ cp # "ok" => w = "ok"
           /\ upload_file(p, cp, w)
    \/ \E id \in ProbeIds, w \in WriteOutcomes :
           /\ (id \notin RowIds(rows) \/ id \notin DOMAIN uploads) => w = "ok"
           /\ process_file(id, w)
    \/ \E w \in WriteOutcomes : (~dirty => w = "ok") /\ _flush_if_dirty(w)
    \/ kill
    \/ InMemoryDB_init
    \/ \E how \in {"garbage", "inaccessible", "drop_id"} :
           external_damage(how)
    \/ \E name \in DOMAIN uploads : external_unlink(name)

Spec == Init /\ [][Next]_vars

\* ---------------------------------------------------------- two processes

\* Two processes run the program, each with its own storage.db over the one
\* file data/db.json and the one managed directory.  up, rows and dirty are
\* the Store of the process that takes the next step, other is the Store of
\* the process that waits; the scheduler gives the turn to the other one.
switch ==
    /\ up' = other.up
    /\ rows' = other.rows
    /\ dirty' = other.dirty
    /\ other' = [up |-> up, rows |-> rows, dirty |-> dirty]
    /\ last' = Result("switch", <<>>, "ok", <<>>, "none", FALSE)
    /\ UNCHANGED <<snapshot, uploads, tokens, held, req>>

\* The steps of two processes that upload one acceptable file again and
\* again and process the copies, with snapshot writes that may fail, and that
\* end and start again.
NextTwo ==
    \/ \E w \in WriteOutcomes : upload_file(SrcA, "ok", w)
    \/ \E id \in RowIds(rows), w \in WriteOutcomes : process_file(id, w)
    \/ \E w \in WriteOutcomes : (~dirty => w = "ok") /\ _flush_if_dirty(w)
    \/ kill
    \/ InMemoryDB_init
    \/ switch

SpecTwo == Init /\ [][NextTwo]_vars

\* ----------------------------------------------------------------- db.all

\* db.all(): list(self._rows.values()) is a new list of the objects the
\* mapping holds, not of copies.  While a process runs, a key of the mapping
\* stays bound to one object (upload binds a new key to a new object, process
\* saves the object it got from db.get), so a reference to a Record object is
\* modelled by its key.  seen is a copy of what the caller read at the return.
all ==
    /\ up
    /\ held' = [refs |-> [i \in 1..Len(rows) |-> rows[i].id], seen |-> rows]
    /\ last' = Result("all", <<>>, "ok", rows, "none", FALSE)
    /\ UNCHANGED <<up, rows, dirty, snapshot, uploads, tokens, other, req>>

\* what the caller reads now through the list it holds
list_now == [i \in 1..Len(held.refs) |-> rows_get(rows, held.refs[i])]

NextAll ==
    \/ Next
    \/ all

SpecAll == Init /\ [][NextAll]_vars

\* ------------------------------------------------ stored files rewritten

\* Something outside the program writes other bytes, of another length, to a
\* stored file.
external_write(name) ==
    /\ name \in DOMAIN uploads
    /\ uploads[name] # BytesLatin
    /\ uploads' = put_file(uploads, name, BytesLatin)
    /\ last' = Result("external", name, "ok", <<>>, "none", FALSE)
    /\ UNCHANGED <<up, rows, dirty, snapshot, tokens>>
    /\ UNCHANGED aux

\* The steps that give process a Record and a file to work on, in a
\* process that may end and start again: uploads of one acceptable file,
\* process calls, both with their faults, and files rewritten or deleted.
NextWrite ==
    \/ \E cp \in CopyOutcomes, w \in WriteOutcomes :
           /\ cp # "ok" => w = "ok"
           /\ upload_file(SrcA, cp, w)
    \/ \E id \in ProbeIds, w \in WriteOutcomes :
           /\ (id \notin RowIds(rows) \/ id \notin DOMAIN uploads) => w = "ok"
           /\ process_file(id, w)
    \/ \E w \in WriteOutcomes : (~dirty => w = "ok") /\ _flush_if_dirty(w)
    \/ kill
    \/ InMemoryDB_init
    \/ \E name \in DOMAIN uploads : external_unlink(name)
    \/ \E name \in DOMAIN uploads : external_write(name)

SpecWrite == Init /\ [][NextWrite]_vars

\* ------------------------------------------------------- the HTTP handler

\* the file names a client sends: an acceptable one and a disallowed one;
\* the handler writes the client's bytes to uploads/_incoming/<name>, which
\* is then the regular file that upload_file is given
FormNames == {SrcA, SrcPdf}

\* Handler.do_POST up to the call of upload_file: the temporary file is
\* written (t = "ok") or open or write raises (t = "error_tmp")
post_begin(name, t) ==
    /\ up
    /\ ~req.busy
    /\ req' = [busy |-> TRUE, tmp |-> (t = "ok")]
    /\ last' = Result("post_begin", name, IF t = "ok" THEN "ok" ELSE "OSError",
                      <<>>, IF t = "ok" THEN "none" ELSE t, FALSE)
    /\ UNCHANGED <<up, rows, dirty, snapshot, uploads, tokens, other, held>>

\* rec = upload_file(tmp_path)
post_upload(cp, w) ==
    /\ req.busy
    /\ last.op = "post_begin"
    /\ last.outcome = "ok"
    /\ upload_file(last.arg, cp, w)

\* rec = process_file(rec.id)
post_process(w) ==
    /\ req.busy
    /\ last.op = "upload"
    /\ last.outcome = "ok"
    /\ process_file(last.ret[1].id, w)

\* the status of the response for what the try block ended with
response_status(outcome) ==
    CASE outcome = "ok" -> "200"
      [] outcome \in {"InvalidFileTypeError", "FileAccessError"} -> "400"
      [] OTHER -> "500"

\* Handler.do_POST from the response on: the payload of the Record or the
\* error is sent, and the finally clause unlinks the temporary file
post_end ==
    /\ req.busy
    /\ \/ last.op = "post_begin" /\ last.outcome # "ok"
       \/ last.op = "upload" /\ last.outcome # "ok"
       \/ last.op = "process"
    /\ req' = NoRequest
    /\ last' = Result("post", last.arg, response_status(last.outcome),
                      IF last.outcome = "ok" THEN last.ret ELSE <<>>,
                      "none", FALSE)
    /\ UNCHANGED <<up, rows, dirty, snapshot, uploads, tokens, other, held>>

\* Something outside the program deletes a stored file while the handler
\* works on a request.
unlink_during_request(name) ==
    /\ req.busy
    /\ name \in DOMAIN uploads
    /\ uploads' = [n \in DOMAIN uploads \ {name} |-> uploads[n]]
    /\ UNCHANGED <<up, rows, dirty, snapshot, tokens, last>>
    /\ UNCHANGED aux

NextPost ==
    \/ \E name \in FormNames, t \in {"ok", "error_tmp"} : post_begin(name, t)
    \/ \E cp \in CopyOutcomes, w \in WriteOutcomes :
           /\ cp # "ok" => w = "ok"
           /\ post_upload(cp, w)
    \/ \E w \in WriteOutcomes : post_process(w)
    \/ post_end
    \/ \E name \in DOMAIN uploads : unlink_during_request(name)

SpecPost == Init /\ [][NextPost]_vars

\* ---------------------------------------------------- the processor alone

\* the length of the byte contents and of the texts given to the processor
MaxBytes == 4
MaxChars == 5

\* a, \n, and the bytes of "\xc3\xa9" (e-acute in UTF-8), of a lone 0xE9
\* (e-acute in Latin-1) and of the byte-order mark
ByteAlphabet == {97, 10, 195, 169, 233, 239, 187, 191}

\* a, space, \n, \r and \v (a line boundary of splitlines that is none of
\* the text layer)
TextAlphabet == {97, 32, 10, 13, 11}

\* the sequences over S of length n at most
SeqsUpTo(S, n) == UNION {[1..k -> S] : k \in 0..n}

\* "a a\na a a\na": three lines, no final newline, as sample.txt of the test
\* suite; "a,a\na,a\na,a\na,a\n": four lines of comma-joined text with a final
\* newline, as its sample.csv
SampleTxt == <<97, 32, 97, 10, 97, 32, 97, 32, 97, 10, 97>>
SampleCsv ==
    <<97, 44, 97, 10, 97, 44, 97, 10, 97, 44, 97, 10, 97, 44, 97, 10>>

\* the contents a stored file has
Contents ==
    SeqsUpTo(ByteAlphabet, MaxBytes) \cup SeqsUpTo(TextAlphabet, MaxChars)
        \cup {SampleTxt, SampleCsv}

\* The state after the first upload in a new data directory, of a source
\* a.txt that holds b.
InitText ==
    \E b \in Contents :
        LET name == target_name(uuid4_hex(1), SrcA)
            record == FileRecord(name, SrcA, Path(UPLOADS_DIR, name), Len(b),
                                 datetime_now(1))
        IN  /\ up = TRUE
            /\ rows = <<record>>
            /\ dirty = FALSE
            /\ snapshot = Serialized(rows)
            /\ uploads = put_file(<<>>, name, b)
            /\ tokens = 1
            /\ last = [op |-> "upload", arg |-> SrcA, outcome |-> "ok",
                       ret |-> <<record>>, fault |-> "none", read |-> FALSE,
                       again |-> FALSE]
            /\ other = [up |-> FALSE, rows |-> <<>>, dirty |-> FALSE]
            /\ held = NoResult
    /\ req = NoRequest

NextText ==
    \E id \in RowIds(rows), w \in WriteOutcomes : process_file(id, w)

SpecText == InitText /\ [][NextText]_vars

\* ------------------------------------------- a snapshot of an earlier run

\* The Records an earlier run of the program uploaded and saved; its uuid4
\* tokens differ from every token this run draws.
PriorRows ==
    LET n1 == target_name(uuid4_hex(5), SrcA)
        n2 == target_name(uuid4_hex(6), SrcA)
    IN  <<FileRecord(n1, SrcA, Path(UPLOADS_DIR, n1), Len(BytesA),
                     datetime_now(1)),
          FileRecord(n2, SrcA, Path(UPLOADS_DIR, n2), Len(BytesA),
                     datetime_now(2))>>

PriorIds == RowIds(PriorRows)

\* The state the earlier run left when it ended: no process, the snapshot
\* file with its two Records, their files in the managed directory.
InitLoad ==
    /\ up = FALSE
    /\ rows = PriorRows
    /\ dirty = FALSE
    /\ snapshot = Serialized(PriorRows)
    /\ uploads = put_file(put_file(<<>>, PriorRows[1].id, BytesA),
                          PriorRows[2].id, BytesA)
    /\ tokens = 0
    /\ last = [op |-> "exit", arg |-> <<>>, outcome |-> "ok", ret |-> <<>>,
               fault |-> "none", read |-> FALSE, again |-> FALSE]
    /\ other = [up |-> FALSE, rows |-> <<>>, dirty |-> FALSE]
    /\ held = NoResult
    /\ req = NoRequest

NextLoad ==
    \/ \E how \in {"garbage", "inaccessible", "drop_id"} :
           external_damage(how)
    \/ InMemoryDB_init
    \/ \E w \in WriteOutcomes : upload_file(SrcA, "ok", w)
    \/ \E id \in RowIds(rows), w \in WriteOutcomes :
           /\ id \notin DOMAIN uploads => w = "ok"
           /\ process_file(id, w)
    \/ \E w \in WriteOutcomes : (~dirty => w = "ok") /\ _flush_if_dirty(w)
    \/ kill

SpecLoad == InitLoad /\ [][NextLoad]_vars

\* ------------------------------------- upload and process in one process

\* One process that only calls upload_file and process_file; nothing
\* outside it touches the snapshot file or the managed directory.
NextOps ==
    \/ \E p \in SrcPaths, cp \in CopyOutcomes, w \in WriteOutcomes :
           /\ (SrcKind(p) # "file" \/ ~AllowedExt(p)) => cp = "ok"
           /\ cp # "ok" => w = "ok"
           /\ upload_file(p, cp, w)
    \/ \E id \in ProbeIds, w \in WriteOutcomes :
           /\ id \notin RowIds(rows) => w = "ok"
           /\ process_file(id, w)

SpecOps == Init /\ [][NextOps]_vars

\* ------------------------------------------------- a crash inside save

\* Where the process stops inside save, after the mapping was updated:
\* before write_text opened the file; after the open (mode "w") truncated
\* it and before the whole text reached it; after the text was written.
CrashPoints == {"before_open", "after_open", "after_write"}

\* the snapshot file a process leaves that stops inside _flush at point at:
\* an empty file or the beginning of a JSON text is no JSON text
_flush_file_crash(rws, snap, at) ==
    CASE snap.kind = "inaccessible" -> snap
      [] at = "before_open" -> snap
      [] at = "after_open" -> SnapGarbage
      [] OTHER -> Serialized(rws)

\* upload_file(src_path) of a process that stops inside db.save(record)
upload_file_crash(p, at) ==
    /\ up
    /\ precheck(p) = "ok"
    /\ tokens < MaxUploads
    /\ tokens' = tokens + 1
    /\ LET name == target_name(uuid4_hex(tokens + 1), p)
           copied == put_file(uploads, name, SrcBytes(p))
           record == FileRecord(name, p, Path(UPLOADS_DIR, name),
                                Len(copied[name]), datetime_now(tokens + 1))
       IN  /\ uploads' = copied
           /\ rows' = rows_set(rows, record)
           /\ snapshot' = _flush_file_crash(rows', snapshot, at)
           /\ last' = Result("crash", name, "killed", <<>>, at, FALSE)
    /\ up' = FALSE
    /\ dirty' = FALSE
    /\ UNCHANGED aux

\* process_file(record_id) of a process that stops inside db.save(rec)
process_file_crash(record_id, at) ==
    /\ up
    /\ record_id \in RowIds(rows)
    /\ rows_get(rows, record_id).stored_path.name \in DOMAIN uploads
    /\ LET rec == rows_get(rows, record_id)
           r == _read_text_robust(uploads[rec.stored_path.name])
       IN  /\ rows' = rows_set(rows, processed(rec, _count_lines_words(r.text)))
           /\ snapshot' = _flush_file_crash(rows', snapshot, at)
           /\ last' = Result("crash", record_id, "killed", <<>>, at, TRUE)
    /\ up' = FALSE
    /\ dirty' = FALSE
    /\ UNCHANGED <<uploads, tokens>>
    /\ UNCHANGED aux

NextCrash ==
    \/ \E w \in WriteOutcomes : upload_file(SrcA, "ok", w)
    \/ \E id \in RowIds(rows), w \in WriteOutcomes : process_file(id, w)
    \/ \E at \in CrashPoints : upload_file_crash(SrcA, at)
    \/ \E id \in RowIds(rows), at \in CrashPoints : process_file_crash(id, at)
    \/ InMemoryDB_init

SpecCrash == Init /\ [][NextCrash]_vars

\* ================================================================= claims

\* C1: an upload of an existing regular file with an allowed extension (in
\* any case), with the copy and the snapshot write succeeding, returns a
\* Record whose id ends with the lowercased extension, whose stored_path is a
\* file of the managed directory, whose status is UPLOADED and whose counts
\* are absent, and the Store holds that Record under its id.
C1_UploadProducesRecord ==
    (/\ last.op = "upload"
     /\ SrcKind(last.arg) = "file"
     /\ AllowedExt(last.arg)
     /\ last.fault = "none")
    => /\ last.outcome = "ok"
       /\ Len(last.ret) = 1
       /\ LET r == last.ret[1]
          IN  /\ EndsWith(r.id, lower(suffix(last.arg)))
              /\ r.stored_path.dir = UPLOADS_DIR
              /\ r.stored_path.name \in DOMAIN uploads
              /\ r.status = "UPLOADED"
              /\ r.line_count = None
              /\ r.word_count = None
              /\ rows_get(rows, r.id) = r

\* C1 witness: an upload of the mixed-case source has returned a Record
C1_Witness ==
    /\ last.op = "upload"
    /\ last.arg = SrcMixed
    /\ last.outcome = "ok"
    /\ Len(last.ret) = 1

\* C2: an upload of an existing regular file whose lowercased extension is
\* not allowed fails with InvalidFileTypeError and leaves the Store's
\* mapping, the snapshot file and the managed directory as they were.
C2_DisallowedRejected ==
    [][(/\ last'.op = "upload"
        /\ SrcKind(last'.arg) = "file"
        /\ ~AllowedExt(last'.arg))
       => /\ last'.outcome = "InvalidFileTypeError"
          /\ last'.ret = <<>>
          /\ UNCHANGED <<rows, snapshot, uploads>>]_vars

\* C2 witness: the disallowed file was rejected while the Store held a Record
C2_Witness ==
    /\ last.op = "upload"
    /\ last.arg = SrcPdf
    /\ last.outcome = "InvalidFileTypeError"
    /\ Len(rows) > 0

\* C3: an upload of a path that does not exist or is not a regular file,
\* whatever its extension, fails with FileAccessError and leaves the Store's
\* mapping, the snapshot file and the managed directory as they were.
C3_MissingRejected ==
    [][(/\ last'.op = "upload"
        /\ SrcKind(last'.arg) # "file")
       => /\ last'.outcome = "FileAccessError"
          /\ last'.ret = <<>>
          /\ UNCHANGED <<rows, snapshot, uploads>>]_vars

\* C4: process of an id that is no key of the mapping fails with
\* RecordNotFoundError, opens no file, and leaves the mapping, the dirty flag
\* and the snapshot file as they were.
C4_UnknownIdNotFound ==
    [][(/\ last'.op = "process"
        /\ last'.arg \notin RowIds(rows))
       => /\ last'.outcome = "RecordNotFoundError"
          /\ ~last'.read
          /\ UNCHANGED <<rows, dirty, snapshot, uploads>>]_vars

\* C4 witness: process failed with RecordNotFoundError for the name of a file
\* that lies in the managed directory without a Record
C4_Witness ==
    /\ last.op = "process"
    /\ last.outcome = "RecordNotFoundError"
    /\ last.arg \in DOMAIN uploads
    /\ Len(rows) > 0

\* a save called by upload or process has returned normally
SaveReturned == last.op \in {"upload", "process"} /\ last.outcome = "ok"

\* C5: after a save that returned normally, a new Store that loads the
\* snapshot file holds the same ids, in the same order, each with a Record
\* equal in all eight fields to the Record the saving Store holds.
C5_RoundTrip ==
    SaveReturned
    => /\ ~_load(snapshot).raised
       /\ RowIds(_load(snapshot).rows) = RowIds(rows)
       /\ _load(snapshot).rows = rows

\* C5 witness: a save returned while the Store held an UPLOADED Record with
\* absent counts and a PROCESSED Record with counts
C5_Witness ==
    /\ SaveReturned
    /\ \E i, j \in 1..Len(rows) :
        /\ rows[i].status = "UPLOADED" /\ rows[i].line_count = None
        /\ rows[j].status = "PROCESSED" /\ rows[j].line_count # None
        /\ rows[j].uploaded_at.usec # "000000"

\* C6: a process call that follows a successful process call on the same
\* id, with nothing in between and no fault of the snapshot write, succeeds,
\* returns the same counts with status PROCESSED, and leaves the mapping, the
\* dirty flag and the snapshot file as the first call left them.
C6_ProcessIdempotent ==
    [][(/\ last.op = "process" /\ last.outcome = "ok"
        /\ last'.op = "process" /\ last'.arg = last.arg
        /\ last'.fault = "none")
       => /\ last'.outcome = "ok"
          /\ Len(last'.ret) = 1
          /\ last'.ret[1].line_count = last.ret[1].line_count
          /\ last'.ret[1].word_count = last.ret[1].word_count
          /\ last'.ret[1].status = "PROCESSED"
          /\ UNCHANGED <<rows, dirty, snapshot>>]_vars

\* C6 witness: the second of two process calls on an id has returned, for a
\* file that has lines
C6_Witness ==
    /\ last.op = "process"
    /\ last.again
    /\ last.outcome = "ok"
    /\ last.ret[1].line_count = PyInt(2)

\* C7: the status the Store shows for a Record never goes from PROCESSED
\* back to UPLOADED, across failing operations and restarts.
C7_StatusMonotonic ==
    [][\A i \in 1..Len(rows) :
          (rows[i].status = "PROCESSED" /\ rows[i].id \in RowIds(rows'))
          => rows_get(rows', rows[i].id).status = "PROCESSED"]_vars

\* status is PROCESSED exactly when both counts are present
StatusAgreesWithCounts(r) ==
    (r.status = "PROCESSED") <=> (r.line_count # None /\ r.word_count # None)

\* the same for an object of the snapshot file
JsonStatusAgreesWithCounts(o) ==
    (o.status = JStr("PROCESSED"))
        <=> (o.line_count # JNull /\ o.word_count # JNull)

\* C8: in every Record of the mapping and every entry of a snapshot the
\* Store wrote, status is PROCESSED if and only if both counts are present.
C8_StatusIffCounts ==
    /\ \A i \in 1..Len(rows) : StatusAgreesWithCounts(rows[i])
    /\ snapshot.kind = "json"
       => \A i \in 1..Len(snapshot.items) :
              JsonStatusAgreesWithCounts(snapshot.items[i])

\* C8 witness: after a failed operation the mapping holds a PROCESSED Record
\* of an empty file, with counts 0, and the snapshot holds it as UPLOADED
C8_Witness ==
    /\ last.outcome \notin {"ok"}
    /\ snapshot.kind = "json"
    /\ \E i \in 1..Len(rows) :
        /\ rows[i].status = "PROCESSED"
        /\ rows[i].line_count = PyInt(0)
        /\ rows[i].word_count = PyInt(0)
        /\ \E j \in 1..Len(snapshot.items) :
            /\ snapshot.items[j].id = JStr(rows[i].id)
            /\ snapshot.items[j].status = JStr("UPLOADED")

\* C9: when save has returned normally, the mapping holds the record under
\* its id, the snapshot file is the serialization of the whole mapping, the
\* dirty flag is clear, and a Store that loads the snapshot file holds the
\* record.
C9_SaveDurable ==
    SaveReturned
    => /\ Len(last.ret) = 1
       /\ rows_get(rows, last.ret[1].id) = last.ret[1]
       /\ snapshot = Serialized(rows)
       /\ ~dirty
       /\ rows_get(_load(snapshot).rows, last.ret[1].id) = last.ret[1]

\* C9 witness: a save that replaced a Record returned while the mapping held
\* two Records
C9_Witness ==
    /\ SaveReturned
    /\ last.op = "process"
    /\ Len(rows) = 2

\* C10: the initialization of the Store reports no error, leaves the dirty
\* flag clear and the snapshot file as it is, and starts with an empty
\* mapping when the file is absent, is no JSON text or cannot be read.
C10_InitNeverFails ==
    [][(~up /\ last'.op = "init")
       => /\ last'.outcome = "ok"
          /\ up'
          /\ ~dirty'
          /\ snapshot' = snapshot
          /\ (snapshot.kind \in {"absent", "garbage", "inaccessible"}
              => rows' = <<>>)]_vars

\* the snapshot write failed inside the save that upload or process called
SaveWriteFailed ==
    /\ last.op \in {"upload", "process"}
    /\ last.fault \in {"error_open", "error_torn"}

\* C11: when the snapshot write fails inside the save called by upload or by
\* process, the caller gets PersistenceError, not the generic UploadError or
\* ProcessingError.
C11_WriteFailureIsPersistence ==
    SaveWriteFailed => last.outcome = "PersistenceError"

\* the ids of the entries a Store would load from snapshot file snap
SnapIds(snap) == RowIds(_load(snap).rows)

\* C12: with two processes over one snapshot file, no step but the
\* initialization takes a Record or a field from the file into the mapping;
\* a save that returns normally leaves the file equal to the serialization
\* of the saving process's mapping alone and the other process's Store as
\* it was, so that what the other process holds and the saving process does
\* not is gone from the file; and an upload or process whose own steps do
\* not fault reports no error.
C12_LastWriterWins ==
    [][/\ (last'.op \in {"upload", "process", "exit", "kill"})
          => \A i \in 1..Len(rows') :
                \/ rows_get(rows, rows'[i].id) = rows'[i]
                \/ last'.op = "process" /\ last'.arg = rows'[i].id
                \/ /\ last'.op = "upload"
                   /\ rows'[i].id \notin RowIds(rows)
                   /\ rows'[i].id \notin SnapIds(snapshot)
       /\ (last'.op \in {"upload", "process"} /\ last'.outcome = "ok")
          => /\ snapshot' = Serialized(rows')
             /\ other' = other
             /\ SnapIds(snapshot') = RowIds(rows) \cup {last'.ret[1].id}
             /\ \A id \in RowIds(other.rows) \ RowIds(rows') :
                    id \notin SnapIds(snapshot')
             /\ \A i \in 1..Len(rows') :
                    rows_get(_load(snapshot').rows, rows'[i].id) = rows'[i]
       /\ (last'.op \in {"upload", "process"} /\ last'.fault = "none")
          => last'.outcome = "ok"]_vars

\* C12 witness: a process that initialized before the other one processed
\* a Record has saved an upload: the other one holds the Record as
\* PROCESSED and the file has it as UPLOADED again, next to the new Record
C12_Witness ==
    /\ last.op = "upload"
    /\ last.outcome = "ok"
    /\ other.up
    /\ \E i \in 1..Len(other.rows) :
        /\ other.rows[i].status = "PROCESSED"
        /\ other.rows[i].id \in SnapIds(snapshot)
        /\ rows_get(_load(snapshot).rows, other.rows[i].id).status = "UPLOADED"

\* C13: db.all() returns the Records the mapping holds, and what a caller
\* reads through a list it got from db.all() stays what it read at the
\* return, in the Records listed and in their fields, whatever upload or
\* process does later.
C13_AllIndependent ==
    /\ last.op = "all" => last.ret = rows
    /\ list_now = held.seen

\* the bytes of the stored file of Record r
StoredBytes(r) == uploads[r.stored_path.name]

\* C14: for every content of a stored file, the chain gives a text, from
\* strict UTF-8 when that accepts the bytes, else from UTF-8 with byte-order
\* mark when that accepts them, else from Latin-1, every byte its own
\* character; the UTF-8 step that ignores errors is not reached; process does
\* not fail with DecodeError, leaves the Record PROCESSED with the counts of
\* that text, and fails only when the snapshot write fails.
C14_DecodingFallback ==
    /\ \A name \in DOMAIN uploads :
        LET b == uploads[name]
            r == _read_text_robust(b)
        IN  /\ r.outcome = "ok"
            /\ r.codec \in {"utf-8", "utf-8-sig", "latin-1"}
            /\ r.codec = "utf-8"
               => /\ utf8_decode(b).ok
                  /\ r.text = universal_newlines(utf8_decode(b).text)
            /\ r.codec = "utf-8-sig"
               => /\ ~utf8_decode(b).ok
                  /\ utf8_sig_decode(b).ok
            /\ r.codec = "latin-1"
               => /\ ~utf8_decode(b).ok
                  /\ ~utf8_sig_decode(b).ok
                  /\ r.text = universal_newlines(b)
    /\ (last.op = "process" /\ last.arg \in RowIds(rows)
            /\ rows_get(rows, last.arg).stored_path.name \in DOMAIN uploads)
       => LET rec == rows_get(rows, last.arg)
              counts == _count_lines_words(
                            _read_text_robust(StoredBytes(rec)).text)
          IN  /\ last.outcome # "DecodeError"
              /\ last.fault = "none" => last.outcome = "ok"
              /\ rec.status = "PROCESSED"
              /\ rec.line_count = PyInt(counts.line_count)
              /\ rec.word_count = PyInt(counts.word_count)

\* C14 witness: process has returned for a file that starts with a
\* byte-order mark and is no UTF-8 text, read as Latin-1
C14_Witness ==
    /\ last.op = "process"
    /\ last.outcome = "ok"
    /\ LET b == StoredBytes(rows_get(rows, last.arg))
       IN  /\ Len(b) = 4
           /\ SubSeq(b, 1, 3) = BOM
           /\ b[4] = 233
           /\ _read_text_robust(b).codec = "latin-1"

\* the positions of the line boundaries of bytes b: a \n, a \r that no \n
\* follows (\r\n is one boundary, at its \n)
LineBoundaries(b) ==
    {i \in 1..Len(b) :
        \/ b[i] = 10
        \/ b[i] = 13 /\ ~(i < Len(b) /\ b[i + 1] = 10)}

\* the lines of b: one for each boundary, and one more for what follows the
\* last boundary unless nothing does
LinesOf(b) ==
    Cardinality(LineBoundaries(b))
        + (IF Len(b) > 0 /\ Len(b) \notin LineBoundaries(b) THEN 1 ELSE 0)

\* b is a text of ordinary characters, spaces, \n and \r
PlainText(b) == \A i \in 1..Len(b) : b[i] \in {97, 44, 32, 10, 13}

\* C15: for a stored file that is a text of ordinary characters, spaces, \n
\* and \r, the line_count process stores is the number of lines that the
\* boundaries \n, \r\n and bare \r delimit: a boundary at the end adds no
\* line, the empty text has none, three lines without a final newline give
\* 3, four lines with a final newline give 4.
C15_LineCount ==
    \A i \in 1..Len(rows) :
        (/\ rows[i].status = "PROCESSED"
         /\ rows[i].stored_path.name \in DOMAIN uploads
         /\ PlainText(StoredBytes(rows[i])))
        => /\ rows[i].line_count = PyInt(LinesOf(StoredBytes(rows[i])))
           /\ StoredBytes(rows[i]) = <<>> => rows[i].line_count = PyInt(0)
           /\ StoredBytes(rows[i]) = SampleTxt => rows[i].line_count = PyInt(3)
           /\ StoredBytes(rows[i]) = SampleCsv => rows[i].line_count = PyInt(4)

\* C15 witness: process has counted two lines in "a\r\na\r"
C15_Witness ==
    /\ last.op = "process"
    /\ last.outcome = "ok"
    /\ StoredBytes(last.ret[1]) = <<97, 13, 10, 97, 13>>
    /\ last.ret[1].line_count = PyInt(2)

\* the maximal runs of characters of text t that are no whitespace
WordRuns(t) ==
    Cardinality({i \in 1..Len(t) :
        /\ t[i] \notin Whitespace
        /\ (i = 1 \/ t[i - 1] \in Whitespace)})

\* C16: the word_count process stores, the sum over the lines of the tokens
\* of each line, is the number of maximal runs of non-whitespace characters
\* of the whole text; comma-joined text without whitespace has one word for
\* each line.
C16_WordCount ==
    \A i \in 1..Len(rows) :
        (/\ rows[i].status = "PROCESSED"
         /\ rows[i].stored_path.name \in DOMAIN uploads)
        => LET t == _read_text_robust(StoredBytes(rows[i])).text
           IN  /\ rows[i].word_count = PyInt(WordRuns(t))
               /\ StoredBytes(rows[i]) = SampleCsv
                  => rows[i].word_count = rows[i].line_count

\* C16 witness: process has counted two words in "a \va", where the line
\* boundary \v follows a space
C16_Witness ==
    /\ last.op = "process"
    /\ last.outcome = "ok"
    /\ StoredBytes(last.ret[1]) = <<97, 32, 11, 97>>
    /\ last.ret[1].word_count = PyInt(2)
    /\ last.ret[1].line_count = PyInt(2)

\* C17: an upload ends normally or with InvalidFileTypeError,
\* FileAccessError or UploadError, a process ends normally or with
\* RecordNotFoundError, DecodeError or ProcessingError; what the checks of
\* upload raise and the RecordNotFoundError of process reach the caller as
\* they are; every other fault (a stat, copy, read or snapshot write that
\* fails, a stored file that is gone) reaches the caller as UploadError from
\* upload and as ProcessingError from process.
C17_ClassificationClosed ==
    /\ last.op = "upload"
       => /\ last.outcome \in {"ok", "InvalidFileTypeError", "FileAccessError",
                               "UploadError"}
          /\ precheck(last.arg) \in {"InvalidFileTypeError", "FileAccessError"}
             => last.outcome = precheck(last.arg)
          /\ (precheck(last.arg) = "OSError" \/ last.fault # "none")
             => last.outcome = "UploadError"
    /\ last.op = "process"
       => /\ last.outcome \in {"ok", "RecordNotFoundError", "DecodeError",
                               "ProcessingError"}
          /\ last.arg \notin RowIds(rows)
             => last.outcome = "RecordNotFoundError"
          /\ last.fault # "none" => last.outcome = "ProcessingError"

\* C17 witness: process of a Record whose stored file was deleted has failed
\* with ProcessingError
C17_Witness ==
    /\ last.op = "process"
    /\ last.fault = "error_read"
    /\ last.outcome = "ProcessingError"
    /\ last.arg \in RowIds(rows)
    /\ last.arg \notin DOMAIN uploads

\* C18: an upload that returns normally appends one Record, under an id
\* that was no key of the mapping, and adds one file, under a name that was
\* not in the managed directory, holding the bytes of the source; the
\* Records and files there were stay as they were; the ids and the
\* stored_path values of the mapping are pairwise distinct.
C18_UploadAddsOne ==
    [][(last'.op = "upload" /\ last'.outcome = "ok")
       => LET r == last'.ret[1]
              name == r.stored_path.name
          IN  /\ r.id \notin RowIds(rows)
              /\ rows' = Append(rows, r)
              /\ name \notin DOMAIN uploads
              /\ DOMAIN uploads' = DOMAIN uploads \cup {name}
              /\ uploads'[name] = SrcBytes(last'.arg)
              /\ \A n \in DOMAIN uploads : uploads'[n] = uploads[n]
              /\ \A i, j \in 1..Len(rows') :
                    i # j => /\ rows'[i].id # rows'[j].id
                             /\ rows'[i].stored_path # rows'[j].stored_path]_vars

\* C18 witness: the second upload of one source has returned and the
\* mapping holds two Records of that source
C18_Witness ==
    /\ last.op = "upload"
    /\ last.outcome = "ok"
    /\ Len(rows) = 2
    /\ rows[1].original_name = rows[2].original_name
    /\ rows[1].id # rows[2].id
    /\ Cardinality(DOMAIN uploads) = 2

\* C19: a process call, when it returns and when it fails, leaves the
\* mapping with the same keys in the same order, every other Record as it
\* was, and the Record of its id as it was in id, original_name, stored_path,
\* size_bytes and uploaded_at, also when the stored file has got another
\* length.
C19_ProcessFrame ==
    [][last'.op = "process"
       => /\ Len(rows') = Len(rows)
          /\ \A i \in 1..Len(rows) :
                IF rows[i].id = last'.arg
                THEN rows'[i] = [rows[i] EXCEPT
                                    !.line_count = rows'[i].line_count,
                                    !.word_count = rows'[i].word_count,
                                    !.status = rows'[i].status]
                ELSE rows'[i] = rows[i]]_vars

\* C19 witness: process has returned the counts of a stored file that was
\* rewritten with another length, next to a second Record
C19_Witness ==
    /\ last.op = "process"
    /\ last.outcome = "ok"
    /\ Len(rows) = 2
    /\ StoredBytes(last.ret[1]) = BytesLatin
    /\ last.ret[1].size_bytes # Len(BytesLatin)
    /\ last.ret[1].line_count = PyInt(2)

\* upload or process has called save
SaveCalled(ev) ==
    /\ ev.op \in {"upload", "process"}
    /\ ev.outcome = "ok" \/ ev.fault \in {"error_open", "error_torn"}

\* C20: the dirty flag is clear after the initialization and after a save
\* whose write succeeded, set after a save whose write failed, and as it was
\* after a call that reaches no save; at shutdown the snapshot is written if
\* and only if the flag is set: with the flag clear the file stays as it is,
\* with the flag set and the write succeeding the file is the serialization
\* of the mapping, from which a new Store loads the same Records.
C20_ShutdownFlush ==
    [][/\ (last'.op = "init" /\ last'.outcome = "ok") => ~dirty'
       /\ (SaveCalled(last') /\ last'.outcome = "ok") => ~dirty'
       /\ (SaveCalled(last') /\ last'.outcome # "ok") => dirty'
       /\ (last'.op \in {"upload", "process"} /\ ~SaveCalled(last'))
          => dirty' = dirty
       /\ last'.op = "exit"
          => /\ (last'.fault = "none") <=> ~dirty
             /\ ~dirty => snapshot' = snapshot
             /\ (dirty /\ last'.fault = "ok")
                => /\ snapshot' = Serialized(rows)
                   /\ _load(snapshot').rows = rows]_vars

\* C20 witness: with the flag set, the shutdown flush has written a mapping
\* of two Records
C20_Witness ==
    /\ last.op = "exit"
    /\ last.fault = "ok"
    /\ Len(rows) = 2
    /\ rows[2].status = "PROCESSED"
    /\ snapshot = Serialized(rows)

\* C21: the handler of POST /upload calls process only for the id of the
\* Record upload has just returned; it answers 200 only when process
\* returned, with the Record PROCESSED and the counts the snapshot file holds
\* for that id; when upload returned and process failed it answers with an
\* error and the Store holds the Record as UPLOADED; when the handler ends
\* no temporary file is left.
C21_PostUploadThenProcess ==
    [][/\ (last'.op = "process" /\ last' # last)
          => /\ last.op = "upload"
             /\ last.outcome = "ok"
             /\ last'.arg = last.ret[1].id
       /\ (last'.op = "post" /\ last'.outcome = "200")
          => /\ last.op = "process"
             /\ last.outcome = "ok"
             /\ last'.ret[1].status = "PROCESSED"
             /\ rows_get(_load(snapshot').rows, last'.ret[1].id) = last'.ret[1]
       /\ (last'.op = "post" /\ last.op = "process" /\ last.outcome # "ok")
          => /\ last'.outcome # "200"
             /\ rows_get(rows', last.arg).status = "UPLOADED"
       /\ last'.op = "post" => ~req'.tmp]_vars

\* an entry of snapshot file snap that _from_dict cannot deserialize
BadEntry(snap) ==
    /\ snap.kind = "json"
    /\ \E i \in 1..Len(snap.items) : ~(RequiredKeys \subseteq DOMAIN snap.items[i])

\* C22: a Store that starts on a snapshot file that is no JSON text, or that
\* has one entry which cannot be deserialized, loads no entry at all and
\* leaves the file as it is; a save that returns normally then replaces the
\* file with the Records of the mapping alone, which are the Records the
\* mapping held plus the saved one, so the Records persisted before are not
\* in the file any more.
C22_LoadAllOrNothing ==
    [][/\ (~up /\ up')
          => /\ snapshot' = snapshot
             /\ (snapshot.kind = "garbage" \/ BadEntry(snapshot))
                => rows' = <<>>
       /\ (up /\ last' # last /\ last'.op \in {"upload", "process"}
              /\ last'.outcome = "ok")
          => /\ snapshot' = Serialized(rows')
             /\ SnapIds(snapshot') = RowIds(rows) \cup {last'.ret[1].id}
             /\ (RowIds(rows) \cap PriorIds = {}
                    => SnapIds(snapshot') \cap PriorIds = {})]_vars

\* C22 witness: a Store has started on a snapshot file whose first entry
\* lacks id and whose second entry is well formed, and holds no Record; the
\* file is as the damage left it
C22_Witness ==
    /\ up /\ last.op = "init" /\ last.outcome = "ok"
    /\ BadEntry(snapshot)
    /\ Len(snapshot.items) = 2
    /\ RequiredKeys \subseteq DOMAIN snapshot.items[2]
    /\ snapshot.items[2].id = JStr(PriorRows[2].id)
    /\ rows = <<>>

\* the status and the counts of the Record that get(id) returns from rws
Outcome(rws, id) ==
    LET r == rows_get(rws, id)
    IN  IF r = None THEN None
        ELSE [status |-> r.status, line_count |-> r.line_count,
              word_count |-> r.word_count]

\* C23: when process(id) fails, with any condition, the Record that get(id)
\* returns afterwards has the status, line_count and word_count it had
\* before the call, and if the Record of the mapping and the Record of the
\* snapshot file agreed before the call they agree after it.
C23_FailedProcessNoChange ==
    [][(up /\ last' # last /\ last'.op = "process" /\ last'.outcome # "ok")
       => /\ Outcome(rows', last'.arg) = Outcome(rows, last'.arg)
          /\ (rows_get(_load(snapshot).rows, last'.arg)
                  = rows_get(rows, last'.arg)
              => rows_get(_load(snapshot').rows, last'.arg)
                  = rows_get(rows', last'.arg))]_vars

\* the Records of rws whose stored_path is the managed file name
RecordsOfFile(rws, name) ==
    {i \in 1..Len(rws) : rws[i].stored_path.name = name}

\* C24: after any upload and process calls of one process, failed ones
\* included, every file of the managed directory is the stored_path of
\* exactly one Record of the Store, every Record's stored_path is a file of
\* the managed directory, and every Record of the mapping is in the snapshot
\* file.
C24_NothingLeftBehind ==
    /\ \A name \in DOMAIN uploads : Cardinality(RecordsOfFile(rows, name)) = 1
    /\ \A i \in 1..Len(rows) : rows[i].stored_path.name \in DOMAIN uploads
    /\ RowIds(rows) \subseteq SnapIds(snapshot)

\* C25: when the process stops inside save, a Store started afterwards loads
\* either the collection as it was before that save (the mapping, or what
\* the snapshot file held) or the collection with that save, and every
\* Record the snapshot file held before is among the Records it loads.
C25_CrashKeepsEarlierSaves ==
    [][(last' # last /\ last'.op = "crash")
       => LET loaded == _load(snapshot').rows
          IN  /\ loaded \in {rows, _load(snapshot).rows, rows'}
              /\ SnapIds(snapshot) \subseteq RowIds(loaded)]_vars

====
